---------------------------- MODULE Spec2Model ----------------------------
(***************************************************************************)
(* A model of attn_augconv.py: the AttentionAugmentation layer of          *)
(* keras-attention-augmented-convs.                                        *)
(*                                                                         *)
(* A tensor is a record [shape, data, sc]: shape is the sequence of its    *)
(* extents, data its elements in row-major order, and sc counts the        *)
(* factors (depth_k / num_heads) ** -0.5 its elements carry (the query     *)
(* scaling of call), so that every element stays an integer.  A tensor an  *)
(* operation refused to produce (a shape error of the backend) is Bad.     *)
(* Index tuples hold 0-based coordinates, as in the source.                *)
(***************************************************************************)
EXTENDS Integers, Sequences, FiniteSets, TLC

\* ------------------------------------------------------------------ bounds
MaxBatch == 3
MaxExtent == 2
MaxHeads == 2
MaxDepth == 2

\* --------------------------------------------------------- backend tensors
BadShape == <<-1>>
Opaque == <<>>
Bad == [shape |-> BadShape, data |-> <<>>, sc |-> 0]

IsBad(t) == t.shape = BadShape
IsOpaque(t) == t.shape # BadShape /\ t.data = Opaque

RECURSIVE Prod(_)
Prod(s) == IF s = <<>> THEN 1 ELSE Head(s) * Prod(Tail(s))

\* The coordinates of the element at row-major offset i, and back.
RECURSIVE UnravelTo(_, _, _)
UnravelTo(i, shape, k) ==
    IF k = 0 THEN <<>>
    ELSE Append(UnravelTo(i \div shape[k], shape, k - 1), i % shape[k])

Unravel(i, shape) == UnravelTo(i, shape, Len(shape))

RECURSIVE RavelFrom(_, _, _, _)
RavelFrom(idx, shape, k, acc) ==
    IF k > Len(shape) THEN acc
    ELSE RavelFrom(idx, shape, k + 1, acc * shape[k] + idx[k])

Ravel(idx, shape) == RavelFrom(idx, shape, 1, 0)

At(t, idx) == t.data[Ravel(idx, t.shape) + 1]

\* A tensor whose elements are left open: only its shape is followed.
OpaqueT(shape, sc) == [shape |-> shape, data |-> Opaque, sc |-> sc]

\* The tensor of the given shape whose element at idx is F(idx); opaque when
\* an operand is.
Mk(opaque, shape, sc, F(_)) ==
    IF opaque THEN OpaqueT(shape, sc)
    ELSE [shape |-> shape,
          data |-> [i \in 1..Prod(shape) |-> F(Unravel(i - 1, shape))] \o <<>>,
          sc |-> sc]

RECURSIVE SumSeq(_)
SumSeq(s) == IF s = <<>> THEN 0 ELSE Head(s) + SumSeq(Tail(s))

\* F(0) + ... + F(n - 1)
SumTo(n, F(_)) == SumSeq([d \in 1..n |-> F(d - 1)])

\* K.reshape / tf.reshape: at most one -1 extent is inferred; the element
\* count must be kept.
ReshapeShape(shape, target) ==
    IF shape = BadShape THEN BadShape
    ELSE LET n == Prod(shape)
             holes == {k \in 1..Len(target) : target[k] = -1}
         IN  IF holes = {} THEN (IF Prod(target) = n THEN target ELSE BadShape)
             ELSE IF Cardinality(holes) > 1 THEN BadShape
             ELSE LET h == CHOOSE k \in holes : TRUE
                      known == Prod([k \in 1..Len(target) |->
                                       IF k = h THEN 1 ELSE target[k]])
                  IN  IF known = 0 \/ n % known # 0 THEN BadShape
                      ELSE [target EXCEPT ![h] = n \div known]

Reshape(t, target) ==
    LET s == ReshapeShape(t.shape, target)
    IN  IF s = BadShape THEN Bad ELSE [t EXCEPT !.shape = s]

\* K.permute_dimensions: axis k of the result is axis perm[k] of the input.
PermuteShape(shape, perm) ==
    IF shape = BadShape \/ Len(perm) # Len(shape) THEN BadShape
    ELSE [k \in 1..Len(perm) |-> shape[perm[k] + 1]]

Permute(t, perm) ==
    LET s == PermuteShape(t.shape, perm)
    IN  IF s = BadShape THEN Bad
        ELSE LET inv == [a \in 1..Len(perm) |->
                           CHOOSE k \in 1..Len(perm) : perm[k] + 1 = a] \o <<>>
             IN  Mk(IsOpaque(t), s, t.sc, LAMBDA idx :
                      At(t, [a \in 1..Len(perm) |-> idx[inv[a]]]))

\* K.concatenate([x, K.zeros(pad_shape)], axis=-1) with pad_shape equal to
\* x's shape but for its last extent, n.
PadLast(t, n) ==
    IF IsBad(t) THEN Bad
    ELSE LET r == Len(t.shape)
             s == [t.shape EXCEPT ![r] = @ + n]
         IN  Mk(IsOpaque(t), s, t.sc, LAMBDA idx :
                  IF idx[r] < t.shape[r] THEN At(t, idx) ELSE 0)

\* x[:, :, :rows, from:] of a rank-4 tensor.
Slice4(t, rows, from) ==
    IF IsBad(t) THEN Bad
    ELSE LET s == <<t.shape[1], t.shape[2], rows, t.shape[4] - from>>
         IN  Mk(IsOpaque(t), s, t.sc, LAMBDA idx : At(t, [idx EXCEPT ![4] = @ + from]))

\* K.expand_dims(x, axis=3) followed by K.tile(x, [1, 1, 1, n, 1, 1]).
ExpandTile3(t, n) ==
    IF IsBad(t) THEN Bad
    ELSE LET s == <<t.shape[1], t.shape[2], t.shape[3], n, t.shape[4], t.shape[5]>>
         IN  Mk(IsOpaque(t), s, t.sc, LAMBDA idx :
                  At(t, <<idx[1], idx[2], idx[3], idx[5], idx[6]>>))

\* tf.split(x, sizes, axis=-1): the sizes must add up to the last extent.
SplitLast(t, sizes) ==
    IF IsBad(t) \/ SumSeq(sizes) # t.shape[Len(t.shape)]
    THEN [k \in 1..Len(sizes) |-> Bad]
    ELSE LET r == Len(t.shape)
         IN  [k \in 1..Len(sizes) |->
                Mk(IsOpaque(t), [t.shape EXCEPT ![r] = sizes[k]], t.sc, LAMBDA idx :
                   At(t, [idx EXCEPT ![r] = @ + SumSeq(SubSeq(sizes, 1, k - 1))]))]

\* tf.einsum('bhxyd,md->bhxym', q, rel_k).
EinsumShape(qs, ks) ==
    IF qs = BadShape \/ ks = BadShape \/ Len(qs) # 5 \/ Len(ks) # 2 THEN BadShape
    ELSE IF qs[5] # ks[2] THEN BadShape
    ELSE [qs EXCEPT ![5] = ks[1]]

Einsum(q, rel_k) ==
    LET s == EinsumShape(q.shape, rel_k.shape)
    IN  IF s = BadShape THEN Bad
        ELSE Mk(IsOpaque(q) \/ IsOpaque(rel_k), s, q.sc + rel_k.sc, LAMBDA idx :
                 SumTo(q.shape[5], LAMBDA d :
                    At(q, [idx EXCEPT ![5] = d]) * At(rel_k, <<idx[5], d>>)))

\* Broadcasting of two extents: equal, or one of them 1.
Bcast(a, b) == IF a = b THEN a ELSE IF a = 1 THEN b ELSE IF b = 1 THEN a ELSE -1

\* tf.matmul(a, b, transpose_b=True) of rank-4 tensors; the two batch axes
\* broadcast (BatchMatMulV2).
MatMulTShape(sa, sb) ==
    IF sa = BadShape \/ sb = BadShape \/ Len(sa) # 4 \/ Len(sb) # 4 THEN BadShape
    ELSE IF sa[4] # sb[4] \/ Bcast(sa[1], sb[1]) = -1 \/ Bcast(sa[2], sb[2]) = -1
         THEN BadShape
    ELSE <<Bcast(sa[1], sb[1]), Bcast(sa[2], sb[2]), sa[3], sb[3]>>

\* tf.matmul(a, b) of rank-4 tensors.
MatMulShape(sa, sb) ==
    IF sa = BadShape \/ sb = BadShape \/ Len(sa) # 4 \/ Len(sb) # 4 THEN BadShape
    ELSE IF sa[4] # sb[3] \/ Bcast(sa[1], sb[1]) = -1 \/ Bcast(sa[2], sb[2]) = -1
         THEN BadShape
    ELSE <<Bcast(sa[1], sb[1]), Bcast(sa[2], sb[2]), sa[3], sb[4]>>

Clip(idx, shape) == [k \in 1..Len(shape) |-> IF shape[k] = 1 THEN 0 ELSE idx[k]]

MatMulT(a, b) ==
    LET s == MatMulTShape(a.shape, b.shape)
    IN  IF s = BadShape THEN Bad
        ELSE Mk(IsOpaque(a) \/ IsOpaque(b), s, a.sc + b.sc, LAMBDA idx :
                 SumTo(a.shape[4], LAMBDA d :
                    At(a, Clip(<<idx[1], idx[2], idx[3], d>>, a.shape))
                  * At(b, Clip(<<idx[1], idx[2], idx[4], d>>, b.shape))))

MatMul(a, b) ==
    LET s == MatMulShape(a.shape, b.shape)
    IN  IF s = BadShape THEN Bad ELSE OpaqueT(s, a.sc + b.sc)

\* a + b with broadcasting, for two tensors of one rank.
AddShape(sa, sb) ==
    IF sa = BadShape \/ sb = BadShape \/ Len(sa) # Len(sb) THEN BadShape
    ELSE IF \E k \in 1..Len(sa) : Bcast(sa[k], sb[k]) = -1 THEN BadShape
    ELSE [k \in 1..Len(sa) |-> Bcast(sa[k], sb[k])]

Add(a, b) ==
    LET s == AddShape(a.shape, b.shape)
    IN  IF s = BadShape \/ a.sc # b.sc THEN Bad
        ELSE Mk(IsOpaque(a) \/ IsOpaque(b), s, a.sc, LAMBDA idx :
                 At(a, Clip(idx, a.shape)) + At(b, Clip(idx, b.shape)))

\* K.softmax(x, axis=-1): the shape is kept; the weights themselves
\* (exponentials) are not represented.
Softmax(t) == IF IsBad(t) THEN Bad ELSE OpaqueT(t.shape, 0)

\* x *= c ** -0.5
Scale(t) == IF IsBad(t) THEN Bad ELSE [t EXCEPT !.sc = @ + 1]

\* ------------------------------------------------------------------ values
\* An integer tensor of the given shape: seed 0 numbers the elements 1, 2, ...
\* (all distinct, none zero); the other seeds give small values of both signs.
Pattern(shape, seed) ==
    [shape |-> shape,
     data |-> [i \in 1..Prod(shape) |->
                 IF seed = 0 THEN i
                 ELSE ((i * i * (seed + 2) + seed * i + 1) % 17) - 8] \o <<>>,
     sc |-> 0]

NoTensor == [shape |-> <<0>>, data |-> <<>>, sc |-> 0]

\* The arguments depth_k and depth_v may be given: an int, or a float (a
\* ratio, counted in tenths).
IntArg(n) == [type |-> "int", v |-> n]
FloatArg(tenths) == [type |-> "float", v |-> tenths]

\* ------------------------------------------------ AttentionAugmentation
\* The layer object is a function from the names of the attributes set so
\* far to their values.
Attrs == {"strides", "depth_k", "depth_v", "num_heads", "relative", "axis"}

Set(s, upd) ==
    [a \in DOMAIN s \cup DOMAIN upd |-> IF a \in DOMAIN upd THEN upd[a] ELSE s[a]]

NoAttrs == [a \in {} |-> 0]

\* A faulty __init__ that stores strides and depth_k before it examines
\* depth_v.
init_late_check(depth_k, depth_v, num_heads, relative, strides, image_data_format) ==
    IF depth_k.type # "int" THEN [self |-> NoAttrs, raised |-> "ValueError"]
    ELSE IF depth_v.type # "int"
         THEN [self |-> [strides |-> strides, depth_k |-> depth_k.v],
               raised |-> "ValueError"]
    ELSE [self |-> [strides |-> strides,
                    depth_k |-> depth_k.v,
                    depth_v |-> depth_v.v,
                    num_heads |-> num_heads,
                    relative |-> relative,
                    axis |-> IF image_data_format = "channels_first" THEN 1 ELSE -1],
          raised |-> "none"]

\* __init__: the attributes set and whether ValueError was raised.
init(depth_k, depth_v, num_heads, relative, strides, image_data_format) ==
    IF depth_k.type # "int" THEN [self |-> NoAttrs, raised |-> "ValueError"]
    ELSE IF depth_v.type # "int" THEN [self |-> NoAttrs, raised |-> "ValueError"]
    ELSE [self |-> [strides |-> strides,
                    depth_k |-> depth_k.v,
                    depth_v |-> depth_v.v,
                    num_heads |-> num_heads,
                    relative |-> relative,
                    axis |-> IF image_data_format = "channels_first" THEN 1 ELSE -1],
          raised |-> "none"]

\* The shape of one relative embedding table, or none.
NoWeight == NoTensor

add_weight(relative, extent, dk_heads, seed) ==
    IF relative THEN Pattern(<<2 * extent - 1, dk_heads>>, seed) ELSE NoWeight

build(s, input_shape, seed) ==
    LET height == IF s.axis = 1 THEN input_shape[3] ELSE input_shape[2]
        width == IF s.axis = 1 THEN input_shape[4] ELSE input_shape[3]
        dk_heads == s.depth_k \div s.num_heads
    IN  Set(s, [_shape |-> input_shape,
                key_relative_w |-> add_weight(s.relative, width, dk_heads, seed),
                key_relative_h |-> add_weight(s.relative, height, dk_heads, seed + 1)])

\* A faulty split_heads_2d that deals the channels out to the heads in turn
\* instead of in contiguous blocks.
split_heads_interleaved(s, ip) ==
    IF IsBad(ip) THEN [self |-> s, ret |-> Bad]
    ELSE [self |-> Set(s, [_batch |-> ip.shape[1], _height |-> ip.shape[2],
                           _width |-> ip.shape[3]]),
          ret |-> Permute(Reshape(ip, <<ip.shape[1], ip.shape[2], ip.shape[3],
                                        ip.shape[4] \div s.num_heads, s.num_heads>>),
                          <<0, 4, 1, 2, 3>>)]

\* split_heads_2d: the layer (its _batch, _height, _width saved) and the
\* tensor returned.
split_heads_2d(s, ip) ==
    IF IsBad(ip) THEN [self |-> s, ret |-> Bad]
    ELSE LET batch == ip.shape[1]
             height == ip.shape[2]
             width == ip.shape[3]
             channels == ip.shape[4]
             ret_shape == <<batch, height, width, s.num_heads,
                            channels \div s.num_heads>>
             split == Reshape(ip, ret_shape)
         IN  [self |-> Set(s, [_batch |-> batch, _height |-> height,
                               _width |-> width]),
              ret |-> Permute(split, <<0, 3, 1, 2, 4>>)]

\* combine_heads_2d, lines 176-182: the last two axes are merged.
merge_heads(transposed) ==
    IF IsBad(transposed) THEN Bad
    ELSE Reshape(transposed,
                 <<transposed.shape[1], transposed.shape[2], transposed.shape[3],
                   transposed.shape[4] * transposed.shape[5]>>)

\* A faulty combine_heads_2d that brings the head axis last.
combine_heads_swapped(inputs) == merge_heads(Permute(inputs, <<0, 2, 3, 4, 1>>))

combine_heads_2d(inputs) == merge_heads(Permute(inputs, <<0, 2, 3, 1, 4>>))

\* A faulty rel_to_abs without the column of padding that skews the rows:
\* the flattened rows are padded to the same length and cut the same way.
rel_to_abs_unskewed(x) ==
    IF IsBad(x) THEN Bad
    ELSE Slice4(Reshape(PadLast(Reshape(x, <<x.shape[1], x.shape[2],
                                            x.shape[3] * (2 * x.shape[3] - 1)>>),
                                2 * x.shape[3] - 1),
                        <<x.shape[1], x.shape[2], x.shape[3] + 1, 2 * x.shape[3] - 1>>),
                x.shape[3], x.shape[3] - 1)

rel_to_abs(x) ==
    IF IsBad(x) THEN Bad
    ELSE LET B == x.shape[1]
             Nh == x.shape[2]
             L == x.shape[3]
             x1 == PadLast(x, 1)
             flat_x == Reshape(x1, <<B, Nh, L * 2 * L>>)
             flat_x_padded == PadLast(flat_x, L - 1)
             final_x == Reshape(flat_x_padded, <<B, Nh, L + 1, 2 * L - 1>>)
         IN  Slice4(final_x, L, L - 1)

relative_logits_1d(s, q, rel_k, H, W, transpose_mask) ==
    LET e == Einsum(q, rel_k)
        r1 == Reshape(e, <<-1, s.num_heads * H, W, 2 * W - 1>>)
        r2 == rel_to_abs(r1)
        r3 == Reshape(r2, <<-1, s.num_heads, H, W, W>>)
        r4 == ExpandTile3(r3, H)
        r5 == Permute(r4, transpose_mask)
    IN  Reshape(r5, <<-1, s.num_heads, H * W, H * W>>)

\* A faulty relative_logits that restores the height bias with the
\* permutation of the width bias.
relative_logits_one_mask(s, q) ==
    IF IsBad(q) THEN <<Bad, Bad>>
    ELSE <<relative_logits_1d(s, Permute(q, <<0, 1, 3, 2, 4>>), s.key_relative_h,
                              q.shape[4], q.shape[3], <<0, 1, 2, 4, 3, 5>>),
           relative_logits_1d(s, q, s.key_relative_w, q.shape[3], q.shape[4],
                              <<0, 1, 2, 4, 3, 5>>)>>

\* relative_logits: <<rel_logits_h, rel_logits_w>>.
relative_logits(s, q) ==
    IF IsBad(q) THEN <<Bad, Bad>>
    ELSE LET height == q.shape[3]
             width == q.shape[4]
             rel_logits_w == relative_logits_1d(s, q, s.key_relative_w, height,
                                                width, <<0, 1, 2, 4, 3, 5>>)
             rel_logits_h == relative_logits_1d(s, Permute(q, <<0, 1, 3, 2, 4>>),
                                                s.key_relative_h, width, height,
                                                <<0, 1, 4, 2, 5, 3>>)
         IN  <<rel_logits_h, rel_logits_w>>

\* call, lines 84-85: logits += h_rel_logits; logits += w_rel_logits.
add_logits(logits, rel) == Add(Add(logits, rel[1]), rel[2])

\* A faulty call that adds the relative logits whatever self.relative is.
add_relative_always(s, logits, q) == add_logits(logits, relative_logits(s, q))

\* call, lines 82-85: the logits handed to softmax.
add_relative(s, logits, q) ==
    IF s.relative THEN add_logits(logits, relative_logits(s, q)) ELSE logits

\* call, lines 65-67: q, k and v are split into heads one after the other,
\* each split saving the extents in the layer.
split_v(rq, rk, rv) == [self |-> rv.self, q |-> rq.ret, k |-> rk.ret, v |-> rv.ret]

split_kv(rq, rk, qkv) ==
    split_v(rq, rk, split_heads_2d(rk.self, IF IsBad(rk.ret) THEN Bad ELSE qkv[3]))

split_qkv(rq, qkv) ==
    split_kv(rq, split_heads_2d(rq.self, IF IsBad(rq.ret) THEN Bad ELSE qkv[2]), qkv)

split_all(s, qkv) == split_qkv(split_heads_2d(s, qkv[1]), qkv)

\* call, lines 59-67: the layout is made channels-last, the input is split
\* into q, k, v and each is split into heads.
call_split(s, inputs) ==
    split_all(s, SplitLast(IF s.axis = 1 THEN Permute(inputs, <<0, 2, 3, 1>>)
                           ELSE inputs,
                           <<s.depth_k, s.depth_k, s.depth_v>>))

\* call, lines 87-88.
softmax_aggregate(logits, flat_v) ==
    [logits |-> logits, attn_out |-> MatMul(Softmax(logits), flat_v)]

\* call, lines 75-88, q already scaled.
attend(s, q, k, v) ==
    softmax_aggregate(
        add_relative(s,
            MatMulT(Reshape(q, <<s._batch, s.num_heads, s._height * s._width,
                                 s.depth_k \div s.num_heads>>),
                    Reshape(k, <<s._batch, s.num_heads, s._height * s._width,
                                 s.depth_k \div s.num_heads>>)),
            q),
        Reshape(v, <<s._batch, s.num_heads, s._height * s._width,
                     s.depth_v \div s.num_heads>>))

\* call, lines 69-88: the logits handed to softmax, and attn_out.
call_attend(s, q, k, v) == attend(s, Scale(q), k, v)

\* A faulty call that leaves the result channels-last.
keep_layout(s, c) == c

\* call, lines 96-98.
restore_layout(s, c) == IF s.axis = 1 THEN Permute(c, <<0, 3, 1, 2>>) ELSE c

\* call, lines 90-100: the heads are combined and the caller's layout is
\* restored.
call_combine(s, attn_out) ==
    restore_layout(s, combine_heads_2d(
        Reshape(attn_out, <<s._batch, s.num_heads, s._height, s._width,
                            s.depth_v \div s.num_heads>>)))

call_finish(s, b) ==
    [self |-> s, logits |-> b.logits, ret |-> call_combine(s, b.attn_out)]

call_after_split(a) ==
    IF IsBad(a.v) THEN [self |-> a.self, logits |-> Bad, ret |-> Bad]
    ELSE call_finish(a.self, call_attend(a.self, a.q, a.k, a.v))

\* call: the layer, the logits handed to softmax and the tensor returned
\* (Bad when call raised).
call(s, inputs) == call_after_split(call_split(s, inputs))

compute_output_shape(s, input_shape) ==
    [input_shape EXCEPT ![IF s.axis = 1 THEN 2 ELSE Len(input_shape)] = s.depth_v]


\* ------------------------------------------------------------------- state
VARIABLES
    args,     \* the arguments __init__ was given
    self,     \* the layer's attributes
    state,    \* "new", "constructed", "built", "done", or "failed" (__init__ raised)
    raised,   \* what the last operation raised: "none", "ValueError", "ShapeError"
    op,       \* the method applied to the built layer, "none" before
    inputs,   \* the tensor that method was given
    logits,   \* call: the logits handed to softmax
    output,   \* what the method returned
    frames    \* SpecConc: the local values of each running call

vars == <<args, self, state, raised, op, inputs, logits, output, frames>>

NoArgs == [depth_k |-> IntArg(0), depth_v |-> IntArg(0), num_heads |-> 0]
NoFrames == <<>>

DepthArgs == {IntArg(n) : n \in 1..MaxDepth} \cup {FloatArg(2)}
Formats == {"channels_last", "channels_first"}
Seeds == {0, 1}

\* The shape (B, H, W, C) in the layout of the layer.
Layout(s, B, H, W, C) == IF s.axis = 1 THEN <<B, C, H, W>> ELSE <<B, H, W, C>>

\* The spatial extents the layer was built for.
BuiltH(s) == IF s.axis = 1 THEN s._shape[3] ELSE s._shape[2]
BuiltW(s) == IF s.axis = 1 THEN s._shape[4] ELSE s._shape[3]

Channels(s) == 2 * s.depth_k + s.depth_v

Init ==
    /\ args = NoArgs
    /\ frames = NoFrames
    /\ self = NoAttrs
    /\ state = "new"
    /\ raised = "none"
    /\ op = "none"
    /\ inputs = NoTensor
    /\ logits = NoTensor
    /\ output = NoTensor

Construct ==
    /\ state = "new"
    /\ \E depth_k \in DepthArgs, depth_v \in DepthArgs, num_heads \in 1..MaxHeads,
          relative \in BOOLEAN, fmt \in Formats :
         LET r == init(depth_k, depth_v, num_heads, relative, <<1, 1>>, fmt)
         IN  /\ args' = [depth_k |-> depth_k, depth_v |-> depth_v,
                          num_heads |-> num_heads]
             /\ self' = r.self
             /\ raised' = r.raised
             /\ state' = IF r.raised = "none" THEN "constructed" ELSE "failed"
    /\ UNCHANGED <<op, inputs, logits, output, frames>>

\* The first use of the layer builds it for the shape of its input (the
\* batch extent unknown: -1).
Build ==
    /\ state = "constructed"
    /\ \E H \in 1..MaxExtent, W \in 1..MaxExtent, seed \in {1} :
         self' = build(self, Layout(self, -1, H, W, Channels(self)), seed)
    /\ state' = "built"
    /\ UNCHANGED <<args, raised, op, inputs, logits, output, frames>>

Called(x, r) ==
    /\ inputs' = x
    /\ self' = r.self
    /\ logits' = r.logits
    /\ output' = r.ret
    /\ raised' = IF IsBad(r.ret) THEN "ShapeError" ELSE "none"

\* One call of the built layer on an input among X.
Call(X) ==
    /\ state = "built"
    /\ \E x \in X : Called(x, call(self, x))
    /\ op' = "call"
    /\ state' = "done"
    /\ UNCHANGED <<args, frames>>

\* Inputs of every batch size and resolution, their elements left open.
OpaqueInputs ==
    {OpaqueT(Layout(self, B, H, W, Channels(self)), 0) :
        B \in 1..MaxBatch, H \in 1..MaxExtent, W \in 1..MaxExtent}

CallAny == Call(OpaqueInputs)

Next == Construct \/ Build \/ CallAny

Spec == Init /\ [][Next]_vars

\* ---------------------------------------- the methods on concrete tensors
MaxPositions == 6
ValExtent == 3
ValHeads == 2
ValDepth == 2
MaxLen == 3

\* The batch sizes of the concrete tensors.
Batches == {1, 2}

\* The layers built for some resolution of at most MaxPositions positions,
\* neither extent above ValExtent, with depths the heads divide.
BuiltLayers ==
    {IF H * W > MaxPositions THEN NoAttrs ELSE
     build(init(IntArg(nh * dkh), IntArg(nh * dvh), nh, rel, <<1, 1>>, fmt).self,
           IF fmt = "channels_first"
           THEN <<-1, nh * (2 * dkh + dvh), H, W>>
           ELSE <<-1, H, W, nh * (2 * dkh + dvh)>>,
           seed) :
        nh \in 1..ValHeads, dkh \in 1..ValDepth, dvh \in {1}, rel \in BOOLEAN,
        fmt \in Formats, H \in 1..ValExtent, W \in 1..ValExtent, seed \in {1}}

BuiltState ==
    /\ self \in BuiltLayers \ {NoAttrs}
    /\ args = [depth_k |-> IntArg(self.depth_k), depth_v |-> IntArg(self.depth_v),
               num_heads |-> self.num_heads]
    /\ state = "built"
    /\ raised = "none"
    /\ op = "none"
    /\ inputs = NoTensor
    /\ logits = NoTensor
    /\ output = NoTensor

InitBuilt == BuiltState /\ frames = NoFrames

\* Inputs at the resolution the layer was built for.
BuiltInputs ==
    {Pattern(Layout(self, B, BuiltH(self), BuiltW(self), Channels(self)), seed) :
        B \in Batches, seed \in {1}}

CallBuilt == Call(BuiltInputs)

Returned(t, s, r) ==
    /\ inputs' = t
    /\ self' = s
    /\ output' = r
    /\ raised' = IF IsBad(r) THEN "ShapeError" ELSE "none"

SplitOf(t, r) == Returned(t, r.self, r.ret)

Split ==
    /\ state = "built"
    /\ \E B \in Batches, C \in 1..(ValHeads * ValDepth) :
         SplitOf(Pattern(<<B, BuiltH(self), BuiltW(self), C>>, 0),
                 split_heads_2d(self, Pattern(<<B, BuiltH(self), BuiltW(self), C>>, 0)))
    /\ op' = "split_heads_2d"
    /\ state' = "done"
    /\ UNCHANGED <<args, logits, frames>>

SplitCombineOf(t, r) == Returned(t, r.self, combine_heads_2d(r.ret))

SplitCombine ==
    /\ state = "built"
    /\ \E B \in Batches, d \in 1..ValDepth :
         SplitCombineOf(Pattern(<<B, BuiltH(self), BuiltW(self), self.num_heads * d>>, 0),
                        split_heads_2d(self, Pattern(<<B, BuiltH(self), BuiltW(self),
                                                       self.num_heads * d>>, 0)))
    /\ op' = "split_combine"
    /\ state' = "done"
    /\ UNCHANGED <<args, logits, frames>>

RelToAbsOf(x) == Returned(x, self, rel_to_abs(x))

RelToAbs ==
    /\ state = "built"
    /\ \E B \in Batches, L \in 1..MaxLen, seed \in Seeds :
         RelToAbsOf(Pattern(<<B, self.num_heads * BuiltH(self), L, 2 * L - 1>>, seed))
    /\ op' = "rel_to_abs"
    /\ state' = "done"
    /\ UNCHANGED <<args, logits, frames>>

RelLogitsGot(q, r) ==
    /\ inputs' = q
    /\ output' = r
    /\ raised' = IF IsBad(r[1]) \/ IsBad(r[2]) THEN "ShapeError" ELSE "none"

RelLogitsOf(q) == RelLogitsGot(q, relative_logits(self, q))

RelLogits ==
    /\ state = "built"
    /\ self.relative
    /\ \E B \in Batches, seed \in Seeds :
         RelLogitsOf(Pattern(<<B, self.num_heads, BuiltH(self), BuiltW(self),
                               self.depth_k \div self.num_heads>>, seed))
    /\ op' = "relative_logits"
    /\ state' = "done"
    /\ UNCHANGED <<args, self, logits, frames>>

NextValues == CallBuilt

SpecValues == InitBuilt /\ [][NextValues]_vars

\* The methods call is made of, none of which reads the layer's axis.
InitHeads == InitBuilt /\ self.axis = -1

NextHeads == Split \/ SplitCombine \/ RelToAbs \/ RelLogits

SpecHeads == InitHeads /\ [][NextHeads]_vars

\* --------------------------------------------- two calls running at once
Threads == {1, 2}

IdleFrame == [pc |-> "idle", inputs |-> NoTensor, q |-> NoTensor, k |-> NoTensor,
              v |-> NoTensor, attn_out |-> NoTensor, ret |-> NoTensor]

\* A thread runs call in three steps, between which the other thread may
\* run: lines 59-67 (which save _batch, _height, _width in the layer),
\* lines 69-88 and lines 90-100 (which both read them back).
InitConc ==
    /\ BuiltState
    /\ self.axis = -1
    /\ self.depth_k = self.num_heads
    /\ BuiltH(self) = BuiltW(self)
    /\ frames = [t \in Threads |-> IdleFrame]

Entered(t, x, a) ==
    /\ self' = a.self
    /\ frames' = [frames EXCEPT ![t] =
                    [pc |-> IF IsBad(a.v) THEN "raised" ELSE "split",
                     inputs |-> x, q |-> a.q, k |-> a.k, v |-> a.v,
                     attn_out |-> NoTensor,
                     ret |-> IF IsBad(a.v) THEN Bad ELSE NoTensor]]

Attended(t, f, b) ==
    frames' = [frames EXCEPT ![t] =
                 [f EXCEPT !.pc = IF IsBad(b.attn_out) THEN "raised" ELSE "attended",
                           !.attn_out = b.attn_out,
                           !.ret = IF IsBad(b.attn_out) THEN Bad ELSE NoTensor]]

Left(t, f, r) ==
    frames' = [frames EXCEPT ![t] =
                 [f EXCEPT !.pc = IF IsBad(r) THEN "raised" ELSE "returned",
                           !.ret = r]]

Enter(t) ==
    /\ frames[t].pc = "idle"
    /\ \E x \in OpaqueInputs : Entered(t, x, call_split(self, x))
    /\ UNCHANGED <<args, state, raised, op, inputs, logits, output>>

Attend(t) ==
    /\ frames[t].pc = "split"
    /\ Attended(t, frames[t],
                call_attend(self, frames[t].q, frames[t].k, frames[t].v))
    /\ UNCHANGED <<args, self, state, raised, op, inputs, logits, output>>

Leave(t) ==
    /\ frames[t].pc = "attended"
    /\ Left(t, frames[t], call_combine(self, frames[t].attn_out))
    /\ UNCHANGED <<args, self, state, raised, op, inputs, logits, output>>

NextConc == \E t \in Threads : Enter(t) \/ Attend(t) \/ Leave(t)

SpecConc == InitConc /\ [][NextConc]_vars

\* ------------------------------------------------------------- properties
\* The extents of a tensor given to call, in the layout of the layer.
InH(s, x) == IF s.axis = 1 THEN x.shape[3] ELSE x.shape[2]
InW(s, x) == IF s.axis = 1 THEN x.shape[4] ELSE x.shape[3]

\* The element of logical index (b, x, y, c) of a tensor given to call.
InAt(s, x, b, h, w, c) ==
    IF s.axis = 1 THEN At(x, <<b, c, h, w>>) ELSE At(x, <<b, h, w, c>>)

ValidConfig(s) == s.depth_k % s.num_heads = 0 /\ s.depth_v % s.num_heads = 0

IntArgs == args.depth_k.type = "int" /\ args.depth_v.type = "int"

Range(n) == 0..(n - 1)

\* C1: rel_to_abs maps every x of shape (B, N, L, 2L-1), L >= 1, to a tensor
\* of shape (B, N, L, L) whose element [b, n, i, j] is x[b, n, i, j-i+L-1];
\* when x has no zero element neither has the result (no padding zero is
\* ever selected).
C1_RelToAbsIndexLaw ==
    op = "rel_to_abs" =>
        /\ raised = "none"
        /\ output.shape = <<inputs.shape[1], inputs.shape[2],
                            inputs.shape[3], inputs.shape[3]>>
        /\ \A b \in Range(inputs.shape[1]), n \in Range(inputs.shape[2]),
              i \in Range(inputs.shape[3]), j \in Range(inputs.shape[3]) :
             At(output, <<b, n, i, j>>)
               = At(inputs, <<b, n, i, j - i + (inputs.shape[3] - 1)>>)
        /\ (\A k \in DOMAIN inputs.data : inputs.data[k] # 0)
             => \A k \in DOMAIN output.data : output.data[k] # 0

\* rel_to_abs has been applied to distinct values with L = 3 and has put
\* offset 0 of the last row in its first column and offset 4 of the first
\* row in its last.
C1_Witness ==
    /\ op = "rel_to_abs"
    /\ inputs.shape[3] = 3
    /\ inputs.data[1] = 1
    /\ output.shape[3] = 3 /\ output.shape[4] = 3
    /\ At(output, <<0, 0, 2, 0>>) = At(inputs, <<0, 0, 2, 0>>)
    /\ At(output, <<0, 0, 0, 2>>) = At(inputs, <<0, 0, 0, 4>>)

\* C2: a constructor given integer depths one of which num_heads does not
\* divide raises a configuration error (the layer is never constructed).
C2_IndivisibleDepthRejected ==
    (/\ state # "new"
     /\ IntArgs
     /\ \/ args.depth_k.v % args.num_heads # 0
        \/ args.depth_v.v % args.num_heads # 0)
    => state = "failed" /\ raised = "ValueError"

\* C3: with relative encoding, a call of a validly configured layer on an
\* input whose height or width is not the one the layer was built for
\* raises a shape error and returns no tensor.
C3_ResolutionChangeFails ==
    (/\ op = "call"
     /\ self.relative
     /\ ValidConfig(self)
     /\ InH(self, inputs) # BuiltH(self) \/ InW(self, inputs) # BuiltW(self))
    => raised = "ShapeError" /\ IsBad(output)

\* C4: combine_heads_2d applied to split_heads_2d(t), for t of shape
\* (B, H, W, C) with num_heads dividing C, is t itself.
C4_SplitCombineIdentity ==
    op = "split_combine" => raised = "none" /\ output = inputs

\* A tensor of two heads of two channels each has gone through split and
\* combine.
C4_Witness ==
    /\ op = "split_combine"
    /\ self.num_heads = 2
    /\ inputs.shape[4] = 4
    /\ inputs.shape[2] * inputs.shape[3] > 1
    /\ output = inputs

\* C5: for a valid configuration and an input of logical shape
\* (B, H, W, 2*depth_k + depth_v) (at the resolution of the tables when
\* there are tables) call returns a tensor of logical shape
\* (B, H, W, depth_v) in the layout of the input, which is the shape
\* compute_output_shape reports; and whatever call returns has that shape.
C5_OutputShape ==
    op = "call" =>
        /\ (ValidConfig(self)
            /\ (self.relative => /\ InH(self, inputs) = BuiltH(self)
                                 /\ InW(self, inputs) = BuiltW(self)))
           => raised = "none"
        /\ raised = "none" =>
             /\ output.shape = Layout(self, inputs.shape[1], InH(self, inputs),
                                      InW(self, inputs), self.depth_v)
             /\ output.shape = compute_output_shape(self, inputs.shape)

\* A channels-first layer with tables has returned (2, depth_v, 2, 1) with
\* depth_v = 2 for an input of shape (2, 2*depth_k + 2, 2, 1).
C5_Witness ==
    /\ op = "call"
    /\ raised = "none"
    /\ self.axis = 1
    /\ self.relative
    /\ self.depth_v = 2
    /\ inputs.shape = <<2, 2 * self.depth_k + 2, 2, 1>>
    /\ output.shape = <<2, 2, 2, 1>>

\* C6: whatever the interleaving of two calls of one layer, a call that has
\* ended has the outcome (the tensor shape returned, or the failure) it has
\* when run alone on its input.
C6_ConcurrentCallsIndependent ==
    \A t \in Threads :
        frames[t].pc \in {"returned", "raised"}
        => frames[t].ret.shape = call(self, frames[t].inputs).ret.shape

\* The content-only logits of call for the input x: the products of the
\* scaled query and the key of each head, summed over the head's channels.
ContentLogits(s, x) ==
    Mk(FALSE,
       <<x.shape[1], s.num_heads, InH(s, x) * InW(s, x), InH(s, x) * InW(s, x)>>,
       1,
       LAMBDA idx :
          SumTo(s.depth_k \div s.num_heads, LAMBDA d :
             InAt(s, x, idx[1], idx[3] \div InW(s, x), idx[3] % InW(s, x),
                  idx[2] * (s.depth_k \div s.num_heads) + d)
           * InAt(s, x, idx[1], idx[4] \div InW(s, x), idx[4] % InW(s, x),
                  s.depth_k + idx[2] * (s.depth_k \div s.num_heads) + d)))

\* C7: without relative encoding build leaves both tables unallocated and
\* the logits call hands to softmax are exactly the content-only logits
\* (scaled query times transposed key).
C7_ContentOnlyLogits ==
    (op = "call" /\ ~self.relative) =>
        /\ self.key_relative_w = NoWeight
        /\ self.key_relative_h = NoWeight
        /\ raised = "none"
        /\ logits = ContentLogits(self, inputs)

\* A layer without tables, of two heads of two key channels each, has been
\* called on two images of more than one position and its logits are not
\* all zero.
C7_Witness ==
    /\ op = "call"
    /\ ~self.relative
    /\ self.num_heads = 2
    /\ self.depth_k = 4
    /\ inputs.shape[1] = 2
    /\ logits.shape[3] > 1
    /\ \E k \in DOMAIN logits.data : logits.data[k] # 0

\* C8: a constructor given a depth_k or a depth_v that is not an int raises
\* a configuration error and has set none of the layer's attributes.
C8_NonIntegerDepthRejected ==
    (state # "new" /\ ~IntArgs) =>
        /\ state = "failed"
        /\ raised = "ValueError"
        /\ DOMAIN self \cap Attrs = {}

\* The constructor has refused a float depth_v that came with an int
\* depth_k.
C8_Witness ==
    /\ state = "failed"
    /\ args.depth_k.type = "int"
    /\ args.depth_v.type = "float"
    /\ raised = "ValueError"
    /\ self = NoAttrs

\* The sum over d of q[b, n, x, y, d] * table[m, d].
RelDot(q, table, b, n, x, y, m) ==
    SumTo(q.shape[5], LAMBDA d : At(q, <<b, n, x, y, d>>) * At(table, <<m, d>>))

\* C9: relative_logits(q) returns (height bias, width bias), both of shape
\* (B, heads, H*W, H*W), with, for p = x*W + y and q' = x'*W + y',
\* width[b, h, p, q'] = sum_d q[b, h, x, y, d] * key_relative_w[y'-y+W-1, d]
\* and
\* height[b, h, p, q'] = sum_d q[b, h, x, y, d] * key_relative_h[x'-x+H-1, d].
C9_RelativeLogits ==
    op = "relative_logits" =>
        /\ raised = "none"
        /\ output[1].shape = <<inputs.shape[1], inputs.shape[2],
                               inputs.shape[3] * inputs.shape[4],
                               inputs.shape[3] * inputs.shape[4]>>
        /\ output[2].shape = output[1].shape
        /\ \A b \in Range(inputs.shape[1]), n \in Range(inputs.shape[2]),
              x \in Range(inputs.shape[3]), y \in Range(inputs.shape[4]),
              x2 \in Range(inputs.shape[3]), y2 \in Range(inputs.shape[4]) :
             /\ At(output[2], <<b, n, x * inputs.shape[4] + y,
                                x2 * inputs.shape[4] + y2>>)
                  = RelDot(inputs, self.key_relative_w, b, n, x, y,
                           y2 - y + inputs.shape[4] - 1)
             /\ At(output[1], <<b, n, x * inputs.shape[4] + y,
                                x2 * inputs.shape[4] + y2>>)
                  = RelDot(inputs, self.key_relative_h, b, n, x, y,
                           x2 - x + inputs.shape[3] - 1)

\* relative_logits has been applied to a query of 2 x 3 positions and two
\* heads, and its two biases differ.
C9_Witness ==
    /\ op = "relative_logits"
    /\ raised = "none"
    /\ inputs.shape[2] = 2
    /\ inputs.shape[3] = 2
    /\ inputs.shape[4] = 3
    /\ output[1].shape[3] = 6
    /\ output[1] # output[2]

\* C10: for t of shape (B, H, W, C), when num_heads divides C
\* split_heads_2d(t) has shape (B, num_heads, H, W, C/num_heads) and its
\* element [b, i, x, y, d] is t[b, x, y, i*(C/num_heads) + d]; when it does
\* not, split_heads_2d raises a shape error and returns nothing.
C10_SplitHeadsIndexLaw ==
    op = "split_heads_2d" =>
        IF inputs.shape[4] % self.num_heads = 0
        THEN /\ raised = "none"
             /\ output.shape = <<inputs.shape[1], self.num_heads, inputs.shape[2],
                                 inputs.shape[3],
                                 inputs.shape[4] \div self.num_heads>>
             /\ \A b \in Range(inputs.shape[1]), i \in Range(self.num_heads),
                   x \in Range(inputs.shape[2]), y \in Range(inputs.shape[3]),
                   d \in Range(inputs.shape[4] \div self.num_heads) :
                  At(output, <<b, i, x, y, d>>)
                    = At(inputs, <<b, x, y,
                                   i * (inputs.shape[4] \div self.num_heads) + d>>)
        ELSE raised = "ShapeError" /\ IsBad(output)

\* Four channels have been split into two heads of two.
C10_Witness ==
    /\ op = "split_heads_2d"
    /\ raised = "none"
    /\ self.num_heads = 2
    /\ inputs.shape[4] = 4
    /\ output.shape[2] = 2 /\ output.shape[5] = 2
=============================================================================
